---- MODULE Spec2Model ----
(***************************************************************************)
(* Scaffold / teardown engine of blueprint-django-galaxy-class.            *)
(*                                                                         *)
(* IGNITION.py `launch` materialises a Django project tree in the working  *)
(* directory through a fixed sequence of external commands and file        *)
(* writes; DESTROY.py `destroy` removes a fixed list of top-level names    *)
(* plus the directory named by the user.  The only state that survives an  *)
(* invocation is the filesystem, so the model is a filesystem plus the     *)
(* position of the invocation that is currently running.                   *)
(*                                                                         *)
(* A path is the sequence of its components from the filesystem root; the  *)
(* working directory is /w.  The filesystem maps each existing path to its *)
(* node: a directory, or a file holding a rendered template (template name *)
(* + substituted identifier).                                              *)
(***************************************************************************)
EXTENDS Integers, Sequences, FiniteSets, TLC

VARIABLES
    fs,            \* the filesystem: existing path -> node
    mode,          \* "idle" | "launch" | "destroy": the invocation running
    pc,            \* position inside the running invocation
    idx,           \* loop index (package list, setup operations, removal list)
    project_name,  \* launch: the identifier (argument or prompt)
    prompted,      \* launch: TRUE when the identifier was prompted (project_name is None)
    app_name,      \* destroy: the identifier typed at the prompt
    confirmation,  \* destroy: the answer to the confirmation prompt
    pending,       \* launch: an exception is propagating through the `finally` clause
    log,           \* operations the running (or last) invocation has invoked, in order
    outcome,       \* "none" | "running" | "complete" | "aborted" | "cancelled" | "error"
    exit_code,     \* process exit status of the last finished invocation (-1: none yet)
    launched,      \* the session has already run its launch
    destroys,      \* number of destroy invocations started in the session
    prev,          \* summary of the invocation that finished before the current one
    created        \* paths the session's launch has created or written so far

vars == <<fs, mode, pc, idx, project_name, prompted, app_name, confirmation,
          pending, log, outcome, exit_code, launched, destroys, prev, created>>

----------------------------------------------------------------------------
(* Bounds of the model *)

\* times the user re-runs destroy with the same answers after the first run
MaxRepeats == 1

----------------------------------------------------------------------------
(* Names the user can type *)

\* identifiers given to launch: a fresh name and a fixed top-level name
LaunchNames == {"blog", "config"}

\* identifiers typed at destroy's prompt
DestroyNames == {"blog", "config", ".", "..", "/srv", "blog/services", ""}

\* answers to the confirmation prompt (the default is the empty string)
Confirmations == {"DESTROY", "destroy", ""}

\* splitting a typed name at the path separator; a leading "/" marks an
\* absolute path
Components(name) ==
    CASE name = "blog"          -> <<"blog">>
      [] name = "config"        -> <<"config">>
      [] name = "."             -> <<".">>
      [] name = ".."            -> <<"..">>
      [] name = "/srv"          -> <<"/", "srv">>
      [] name = "blog/services" -> <<"blog", "services">>
      [] name = ""              -> <<>>
      [] OTHER                  -> <<name>>

----------------------------------------------------------------------------
(* Filesystem *)

Root == <<>>
Cwd == <<"w">>

Absent == [kind |-> "absent", tmpl |-> "", arg |-> ""]
Dir == [kind |-> "dir", tmpl |-> "", arg |-> ""]
File(t, a) == [kind |-> "file", tmpl |-> t, arg |-> a]
\* a file opened for writing whose content was not (fully) written
Truncated == [kind |-> "file", tmpl |-> "<partial>", arg |-> ""]

Parent(p) == SubSeq(p, 1, Len(p) - 1)
IsPrefix(p, q) == Len(p) <= Len(q) /\ SubSeq(q, 1, Len(p)) = p
Ancestors(p) == {SubSeq(p, 1, n) : n \in 0..(Len(p) - 1)}

\* the kernel's path walk: "." stays, ".." goes up, "/" restarts at the root
RECURSIVE Walk(_, _)
Walk(at, comps) ==
    IF comps = <<>> THEN at
    ELSE LET c == Head(comps)
             next == CASE c = "/"  -> Root
                       [] c = "."  -> at
                       [] c = ".." -> IF at = Root THEN Root ELSE Parent(at)
                       [] OTHER    -> Append(at, c)
         IN Walk(next, Tail(comps))

\* a relative or absolute path, given as components, resolved from the
\* working directory
Resolve(comps) == Walk(Cwd, comps)

NodeAt(f, p) == IF p \in DOMAIN f THEN f[p] ELSE Absent

\* os.path.isfile / os.path.isdir; the empty path names nothing
isfile(f, comps) == comps # <<>> /\ NodeAt(f, Resolve(comps)).kind = "file"
isdir(f, comps) == comps # <<>> /\ NodeAt(f, Resolve(comps)).kind = "dir"

Exists(f, p) == p \in DOMAIN f

\* os.makedirs(path, exist_ok=True): possible when no component on the way is
\* a file
CanMakedirs(f, p) ==
    \A q \in Ancestors(p) \cup {p} : NodeAt(f, q).kind # "file"
Makedirs(f, p) ==
    [q \in DOMAIN f \cup Ancestors(p) \cup {p} |->
        IF q \in Ancestors(p) \cup {p} THEN Dir ELSE f[q]]

\* open(path, "w") succeeds when the parent is a directory and the path is
\* not one
CanOpen(f, p) ==
    /\ p # Root
    /\ NodeAt(f, Parent(p)).kind = "dir"
    /\ NodeAt(f, p).kind # "dir"
Put(f, p, node) == [q \in DOMAIN f \cup {p} |-> IF q = p THEN node ELSE f[q]]

\* Path(...).touch(): creates an empty file, keeps the content of an existing one
Touch(f, p) ==
    IF NodeAt(f, p).kind = "file" THEN f ELSE Put(f, p, File("empty", ""))

\* removal of p and of everything below it
Prune(f, p) == [q \in {x \in DOMAIN f : ~IsPrefix(p, x)} |-> f[q]]
\* removal of everything below p, p itself staying
PruneBelow(f, p) ==
    [q \in {x \in DOMAIN f : ~IsPrefix(p, x) \/ x = p} |-> f[q]]

----------------------------------------------------------------------------
(* IGNITION.py: the package list and the operations of setup_django_project *)

\* install_dependencies: `requirements`
Requirements ==
    << "django>=4.2.0", "python-dotenv", "social-auth-app-django",
       "django-allauth", "selenium>=4.0.0", "behave>=1.2.6",
       "behave-django>=1.4.0", "pytest-django>=4.5.0", "webdriver-manager",
       "coverage", "typer", "rich", "pytest", "pytest-django" >>

\* templates whose body is formatted with project_name
Parameterised ==
    {"mission", "pytest_ini", "setup_py", "app_urls", "project_urls",
     "project_settings"}

\* the templates written out without substituting the identifier
RenderVerbatim(tmpl, name) == File(tmpl, "")

\* str.format / f-string rendering: the identifier is substituted only into
\* the templates that have a placeholder
Render(tmpl, name) == File(tmpl, IF tmpl \in Parameterised THEN name ELSE "")

Op(kind, what, path, stage) ==
    [kind |-> kind, what |-> what, path |-> path, stage |-> stage]

\* setup_django_project(project_name), statement by statement
SetupOps(name) ==
    LET app == Components(name) IN
    << Op("run", "startproject", <<>>, "structure"),
       Op("run", "startapp", <<>>, "structure"),
       Op("makedirs", "", <<"tests">>, "structure"),
       Op("write", "tests_init", <<"tests", "__init__.py">>, "structure"),
       Op("write", "conftest", <<"tests", "conftest.py">>, "structure"),
       Op("write", "test_views", <<"tests", "test_views.py">>, "structure"),
       Op("write", "pytest_ini", <<"pytest.ini">>, "structure"),
       Op("write", "setup_py", <<"setup.py">>, "structure"),
       Op("makedirs", "", app \o <<"services">>, "structure"),
       Op("makedirs", "", app \o <<"services", "external">>, "structure"),
       Op("write", "services_init", app \o <<"services", "__init__.py">>, "structure"),
       Op("write", "services_base", app \o <<"services", "base.py">>, "structure"),
       Op("write", "services_exceptions", app \o <<"services", "exceptions.py">>, "structure"),
       Op("write", "external_init", app \o <<"services", "external", "__init__.py">>, "structure"),
       Op("write", "app_urls", app \o <<"urls.py">>, "structure"),
       Op("write", "project_urls", app \o <<"urls.py">>, "structure"),
       Op("write", "project_settings", <<"config", "settings.py">>, "structure"),
       Op("makedirs", "", <<"features", "steps">>, "structure"),
       Op("touch", "", <<"features", "__init__.py">>, "structure"),
       Op("write", "environment_py", <<"features", "environment.py">>, "structure"),
       Op("write", "homepage_feature", <<"features", "homepage.feature">>, "structure"),
       Op("write", "homepage_steps", <<"features", "steps", "homepage_steps.py">>, "structure"),
       Op("touch", "", <<"features", "steps", "__init__.py">>, "structure"),
       Op("makedirs", "", app \o <<"templates">> \o app, "structure"),
       Op("makedirs", "", app \o <<"static">> \o app \o <<"css">>, "structure"),
       Op("makedirs", "", app \o <<"static">> \o app \o <<"js">>, "structure"),
       Op("makedirs", "", app \o <<"static">> \o app \o <<"images">>, "structure"),
       Op("write", "base_html", app \o <<"templates">> \o app \o <<"base.html">>, "structure"),
       Op("write", "style_css", app \o <<"static">> \o app \o <<"css", "style.css">>, "structure"),
       Op("write", "main_js", app \o <<"static">> \o app \o <<"js", "main.js">>, "structure"),
       Op("write", "gitignore", <<".gitignore">>, "structure"),
       Op("run", "git init", <<>>, "vcs"),
       Op("run", "migrate", <<>>, "postinit"),
       Op("run", "createsuperuser", <<>>, "postinit"),
       Op("write", "behave_ini", <<"behave.ini">>, "structure") >>

\* what a successful external command leaves on disk, as makedirs / write steps
CommandEffect(cmd, name) ==
    LET app == Components(name) IN
    CASE cmd = "venv" ->
            << Op("makedirs", "", <<"venv">>, ""),
               Op("write", "pyvenv_cfg", <<"venv", "pyvenv.cfg">>, "") >>
      [] cmd = "startproject" ->
            << Op("write", "manage_py", <<"manage.py">>, ""),
               Op("makedirs", "", <<"config">>, ""),
               Op("write", "config_init", <<"config", "__init__.py">>, ""),
               Op("write", "django_settings", <<"config", "settings.py">>, ""),
               Op("write", "django_urls", <<"config", "urls.py">>, ""),
               Op("write", "django_wsgi", <<"config", "wsgi.py">>, ""),
               Op("write", "django_asgi", <<"config", "asgi.py">>, "") >>
      [] cmd = "startapp" ->
            << Op("makedirs", "", app, ""),
               Op("write", "app_init", app \o <<"__init__.py">>, ""),
               Op("write", "app_views", app \o <<"views.py">>, "") >>
      [] cmd = "git init" -> << Op("makedirs", "", <<".git">>, "") >>
      [] cmd = "migrate" -> << Op("write", "sqlite_migrated", <<"db.sqlite3">>, "") >>
      [] cmd = "createsuperuser" -> << Op("write", "sqlite_admin", <<"db.sqlite3">>, "") >>
      [] OTHER -> << >>

\* one makedirs / write / touch step applied to f; ok is FALSE when the
\* filesystem refuses it
Primitive(f, op, name) ==
    LET p == Resolve(op.path) IN
    CASE op.kind = "makedirs" ->
            IF CanMakedirs(f, p) THEN [ok |-> TRUE, fs |-> Makedirs(f, p)]
            ELSE [ok |-> FALSE, fs |-> f]
      [] op.kind = "write" ->
            IF CanOpen(f, p) THEN [ok |-> TRUE, fs |-> Put(f, p, Render(op.what, name))]
            ELSE [ok |-> FALSE, fs |-> f]
      [] op.kind = "touch" ->
            IF CanOpen(f, p) THEN [ok |-> TRUE, fs |-> Touch(f, p)]
            ELSE [ok |-> FALSE, fs |-> f]
      [] OTHER -> [ok |-> FALSE, fs |-> f]

RECURSIVE ApplyAll(_, _, _)
ApplyAll(f, ops, name) ==
    IF ops = <<>> THEN [ok |-> TRUE, fs |-> f]
    ELSE LET r == Primitive(f, Head(ops), name) IN
         IF r.ok THEN ApplyAll(r.fs, Tail(ops), name) ELSE r

\* the command run to completion
RunCommand(f, cmd, name) == ApplyAll(f, CommandEffect(cmd, name), name)

----------------------------------------------------------------------------
(* DESTROY.py: the removal list *)

\* destroy: files_to_remove
files_to_remove ==
    << "manage.py", "requirements.txt", "setup.py", "behave.ini", "db.sqlite3",
       "pytest.ini", ".gitignore" >>

\* the directory list with an entry for a directory launch never makes
dirs_with_docs(name) ==
    << <<"venv">>, <<"tests">>, <<"features">>, Components(name), <<"config">>,
       <<"docs">> >>

\* destroy: dirs_to_remove, app_name in fourth place
dirs_to_remove(name) ==
    << <<"venv">>, <<"tests">>, <<"features">>, Components(name), <<"config">> >>

\* the paths destroy passes to remove_if_exists, in order
Candidates(name) ==
    [i \in 1..Len(files_to_remove) |-> <<files_to_remove[i]>>] \o dirs_to_remove(name)

----------------------------------------------------------------------------
(* The user's own files *)

Range(s) == {s[i] : i \in DOMAIN s}

\* files the user keeps that the scaffold knows nothing about: one in the
\* working directory, one next to it, one elsewhere
UserFiles ==
    { <<"w", "notes.txt">>, <<"other.txt">>, <<"srv", "data.txt">> }

----------------------------------------------------------------------------
(* Initial state: a working directory holding only the user's own files *)

\* one operation an invocation has invoked: its stage, its kind ("run",
\* "makedirs", "write", "touch", "copy", "remove", "rmtree", "skip"), the
\* command or template, the path or package, and whether it succeeded
Event(stage, op, what, arg, ok) ==
    [stage |-> stage, op |-> op, what |-> what, arg |-> arg, ok |-> ok]

\* the paths that differ between f and g and exist in g
Written(f, g) == {p \in DOMAIN g : p \notin DOMAIN f \/ g[p] # f[p]}

NoRun == [cmd |-> "none", name |-> "", confirmed |-> FALSE, outcome |-> "none"]

Init ==
    /\ fs = [p \in UserFiles \cup {Cwd} \cup UNION {Ancestors(u) : u \in UserFiles} |->
                IF p \in UserFiles THEN File("user", "") ELSE Dir]
    /\ mode = "idle"
    /\ pc = "none"
    /\ idx = 0
    /\ project_name = ""
    /\ prompted = FALSE
    /\ app_name = ""
    /\ confirmation = ""
    /\ pending = FALSE
    /\ log = <<>>
    /\ outcome = "none"
    /\ exit_code = -1
    /\ launched = FALSE
    /\ destroys = 0
    /\ prev = NoRun
    /\ created = {}

\* the summary of the invocation that has just finished
LastRun ==
    IF outcome = "none" THEN NoRun
    ELSE IF pc = "launch"
         THEN [cmd |-> "launch", name |-> project_name, confirmed |-> FALSE,
               outcome |-> outcome]
         ELSE [cmd |-> "destroy", name |-> app_name,
               confirmed |-> (outcome # "cancelled"), outcome |-> outcome]

\* a shell is sitting in the working directory
AtPrompt == mode = "idle" /\ NodeAt(fs, Cwd).kind = "dir"

\* the invocation ends: typer.Exit / return from the command
Finish(result, code) ==
    /\ mode' = "idle"
    /\ outcome' = result
    /\ exit_code' = code
    /\ idx' = 0
    /\ pending' = FALSE

\* the handler cleaning up before it exits: what the run created is removed
AbortRollback(f, event) ==
    /\ fs' = [p \in DOMAIN f \ (created \cup Written(fs, f)) |-> f[p]]
    /\ created' = created \cup Written(fs, f)
    /\ log' = Append(log, event)
    /\ pc' = "launch"
    /\ Finish("aborted", 1)
    /\ UNCHANGED <<project_name, prompted, app_name, confirmation, launched,
                   destroys, prev>>

\* the handler ending the command with `raise typer.Exit()`, exit code 0
AbortExitZero(f, event) ==
    /\ fs' = f
    /\ created' = created \cup Written(fs, f)
    /\ log' = Append(log, event)
    /\ pc' = "launch"
    /\ Finish("aborted", 0)
    /\ UNCHANGED <<project_name, prompted, app_name, confirmation, launched,
                   destroys, prev>>

\* the handler printing the error without raising: the command goes on with
\* the statements after the try block
AbortFallThrough(f, event) ==
    /\ fs' = f
    /\ created' = created \cup Written(fs, f)
    /\ log' = Append(log, event)
    /\ pc' = "verify"
    /\ idx' = 0
    /\ outcome' = "aborted"
    /\ UNCHANGED <<mode, project_name, prompted, app_name, confirmation, pending,
                   exit_code, launched, destroys, prev>>

\* launch: `except Exception as e: ... raise typer.Exit(1)`; also an exception
\* that leaves the command uncaught
Abort(f, event) ==
    /\ fs' = f
    /\ created' = created \cup Written(fs, f)
    /\ log' = Append(log, event)
    /\ pc' = "launch"
    /\ Finish("aborted", 1)
    /\ UNCHANGED <<project_name, prompted, app_name, confirmation, launched,
                   destroys, prev>>

\* launch moves on to the statement at position (label, i)
Goto(f, event, label, i) ==
    /\ fs' = f
    /\ created' = created \cup Written(fs, f)
    /\ log' = Append(log, event)
    /\ pc' = label
    /\ idx' = i
    /\ UNCHANGED <<mode, project_name, prompted, app_name, confirmation, pending,
                   outcome, exit_code, launched, destroys, prev>>

\* the outcomes of `with open(path, "w") as f: f.write(content)`: written,
\* open() raised, or write() raised after open() had truncated the file
WriteOutcomes(f, p) ==
    IF CanOpen(f, p) THEN {"written", "open failed", "write failed"}
    ELSE {"open failed"}

AfterWrite(f, p, node, how) ==
    CASE how = "written"      -> Put(f, p, node)
      [] how = "write failed" -> Put(f, p, Truncated)
      [] OTHER                -> f

----------------------------------------------------------------------------
(* IGNITION.py: launch *)

\* the command starts; project_name is the argument, or None and then prompted
LaunchStart(name, ask) ==
    /\ AtPrompt
    /\ ~launched
    /\ mode' = "launch"
    /\ pc' = IF ask THEN "mission" ELSE "venv"
    /\ project_name' = name
    /\ prompted' = ask
    /\ launched' = TRUE
    /\ log' = <<>>
    /\ outcome' = "running"
    /\ exit_code' = -1
    /\ idx' = 0
    /\ pending' = FALSE
    /\ prev' = LastRun
    /\ UNCHANGED <<fs, app_name, confirmation, destroys, created>>

\* `with open("MISSION.md", "w")`, inside `if project_name is None`, before
\* the try block
WriteMission ==
    /\ mode = "launch" /\ pc = "mission"
    /\ LET p == Resolve(<<"MISSION.md">>) IN
       \E how \in WriteOutcomes(fs, p) :
          LET f == AfterWrite(fs, p, Render("mission", project_name), how)
              e == Event("mission", "write", "mission", p, how = "written")
          IN IF how = "written" THEN Goto(f, e, "venv", 0) ELSE Abort(f, e)

\* the environment command run without check=True
CreateVirtualEnvironmentUnchecked ==
    /\ mode = "launch" /\ pc = "venv"
    /\ LET r == RunCommand(fs, "venv", project_name) IN
       \E ok \in {TRUE, FALSE} :
          LET e == Event("environment", "run", "venv", <<>>, ok /\ r.ok) IN
          IF ok /\ r.ok THEN Goto(r.fs, e, "django", 1) ELSE Goto(fs, e, "django", 1)

\* create_virtual_environment: subprocess.run([... "-m", "venv", "venv"], check=True)
CreateVirtualEnvironment ==
    /\ mode = "launch" /\ pc = "venv"
    /\ LET r == RunCommand(fs, "venv", project_name) IN
       \E ok \in {TRUE, FALSE} :
          LET e == Event("environment", "run", "venv", <<>>, ok /\ r.ok) IN
          IF ok /\ r.ok THEN Goto(r.fs, e, "django", 1) ELSE Abort(fs, e)

\* the first package installed a second time after a failure
InstallDjangoRetry ==
    /\ mode = "launch" /\ pc = "django"
    /\ \E ok \in {TRUE, FALSE} :
          LET e == Event("dependencies", "run", "pip install", <<Requirements[1]>>, ok) IN
          IF ok THEN Goto(fs, e, "packages", 2)
          ELSE IF log[Len(log)] = e THEN Abort(fs, e)
          ELSE Goto(fs, e, "django", 1)

\* the first package's failure handled like `except: pass`
InstallDjangoLenient ==
    /\ mode = "launch" /\ pc = "django"
    /\ \E ok \in {TRUE, FALSE} :
          Goto(fs, Event("dependencies", "run", "pip install", <<Requirements[1]>>, ok),
               "packages", 2)

\* install_dependencies: the first package, outside the try/finally
InstallDjango ==
    /\ mode = "launch" /\ pc = "django"
    /\ \E ok \in {TRUE, FALSE} :
          LET e == Event("dependencies", "run", "pip install", <<Requirements[1]>>, ok) IN
          IF ok THEN Goto(fs, e, "packages", 2) ELSE Abort(fs, e)

\* the loop with the failure only reported (`except: print`, no raise): the
\* next package is installed all the same
InstallPackageContinue ==
    /\ mode = "launch" /\ pc = "packages" /\ idx <= Len(Requirements)
    /\ \E ok \in {TRUE, FALSE} :
          /\ log' = Append(log, Event("dependencies", "run", "pip install",
                                    <<Requirements[idx]>>, ok))
          /\ IF idx < Len(Requirements)
             THEN pc' = "packages" /\ idx' = idx + 1
             ELSE pc' = "requirements" /\ idx' = 0
          /\ pending' = (pending \/ ~ok)
          /\ UNCHANGED <<fs, mode, project_name, prompted, app_name, confirmation,
                         outcome, exit_code, launched, destroys, prev, created>>

\* install_dependencies: `for package in requirements[1:]` inside try; a
\* failure re-raises and reaches the finally clause
InstallPackage ==
    /\ mode = "launch" /\ pc = "packages" /\ idx <= Len(Requirements)
    /\ \E ok \in {TRUE, FALSE} :
          /\ log' = Append(log, Event("dependencies", "run", "pip install",
                                    <<Requirements[idx]>>, ok))
          /\ IF ok /\ idx < Len(Requirements)
             THEN pc' = "packages" /\ idx' = idx + 1 /\ pending' = FALSE
             ELSE pc' = "requirements" /\ idx' = 0 /\ pending' = ~ok
          /\ UNCHANGED <<fs, mode, project_name, prompted, app_name, confirmation,
                         outcome, exit_code, launched, destroys, prev, created>>

\* install_dependencies: `finally: with open("requirements.txt", "w")`
WriteRequirements ==
    /\ mode = "launch" /\ pc = "requirements"
    /\ LET p == Resolve(<<"requirements.txt">>) IN
       \E how \in WriteOutcomes(fs, p) :
          LET f == AfterWrite(fs, p, Render("requirements", project_name), how)
              e == Event("dependencies", "write", "requirements", p, how = "written")
          IN IF how = "written" /\ ~pending THEN Goto(f, e, "setup", 1)
             ELSE Abort(f, e)

\* the statement of setup_django_project that runs next
SetupOp == SetupOps(project_name)[idx]
InSetup(kind) ==
    /\ mode = "launch" /\ pc = "setup"
    /\ idx \in DOMAIN SetupOps(project_name)
    /\ SetupOp.kind = kind
\* after statement idx: the next one, or back in launch at the copy
SetupNext(f, e) ==
    IF idx < Len(SetupOps(project_name)) THEN Goto(f, e, "setup", idx + 1)
    ELSE Goto(f, e, "copy", 0)

\* the commands run without check=True: a failing command is passed over
SetupRunUnchecked ==
    /\ InSetup("run")
    /\ LET r == RunCommand(fs, SetupOp.what, project_name) IN
       \E ok \in {TRUE, FALSE} :
          LET e == Event(SetupOp.stage, "run", SetupOp.what, <<>>, ok /\ r.ok) IN
          IF ok /\ r.ok THEN SetupNext(r.fs, e) ELSE SetupNext(fs, e)

\* setup_django_project: subprocess.run(..., check=True) of django-admin
\* startproject, manage.py startapp, git init, migrate, createsuperuser
SetupRun ==
    /\ InSetup("run")
    /\ LET r == RunCommand(fs, SetupOp.what, project_name) IN
       \E ok \in {TRUE, FALSE} :
          LET e == Event(SetupOp.stage, "run", SetupOp.what, <<>>, ok /\ r.ok) IN
          IF ok /\ r.ok THEN SetupNext(r.fs, e) ELSE Abort(fs, e)

\* the directory step passed over: it reports success and creates nothing
SetupMakedirsSkipped ==
    /\ InSetup("makedirs")
    /\ LET p == Resolve(SetupOp.path) IN
       SetupNext(fs, Event(SetupOp.stage, "makedirs", "", p, TRUE))

\* setup_django_project: os.makedirs(path, exist_ok=True)
SetupMakedirs ==
    /\ InSetup("makedirs")
    /\ LET p == Resolve(SetupOp.path) IN
       \E ok \in {TRUE, FALSE} :
          LET good == ok /\ CanMakedirs(fs, p)
              e == Event(SetupOp.stage, "makedirs", "", p, good)
          IN IF good THEN SetupNext(Makedirs(fs, p), e) ELSE Abort(fs, e)

\* setup_django_project: with open(path, "w") as f: f.write(content)
SetupWrite ==
    /\ InSetup("write")
    /\ LET p == Resolve(SetupOp.path) IN
       \E how \in WriteOutcomes(fs, p) :
          LET f == AfterWrite(fs, p, Render(SetupOp.what, project_name), how)
              e == Event(SetupOp.stage, "write", SetupOp.what, p, how = "written")
          IN IF how = "written" THEN SetupNext(f, e) ELSE Abort(f, e)

\* setup_django_project: Path(path).touch()
SetupTouch ==
    /\ InSetup("touch")
    /\ LET p == Resolve(SetupOp.path) IN
       \E ok \in {TRUE, FALSE} :
          LET good == ok /\ CanOpen(fs, p)
              e == Event(SetupOp.stage, "touch", "", p, good)
          IN IF good THEN SetupNext(Touch(fs, p), e) ELSE Abort(fs, e)

\* the outcomes of shutil.copy2(src, dst): copied; nothing opened; the
\* content copy failing after dst was opened for writing; the metadata copy
\* (copystat) failing after the content was copied
CopyOutcomes(f, src, dst) ==
    IF NodeAt(f, src).kind = "file" /\ CanOpen(f, dst)
    THEN {"copied", "open failed", "copy failed", "copystat failed"}
    ELSE {"open failed"}

AfterCopy(f, src, dst, how) ==
    CASE how \in {"copied", "copystat failed"} -> Put(f, dst, f[src])
      [] how = "copy failed" -> Put(f, dst, Truncated)
      [] OTHER -> f

\* launch: shutil.copy2("requirements.txt", os.path.join(project_name, "requirements.txt"))
CopyRequirements ==
    /\ mode = "launch" /\ pc = "copy"
    /\ LET src == Resolve(<<"requirements.txt">>)
           dst == Resolve(Components(project_name) \o <<"requirements.txt">>)
       IN \E how \in CopyOutcomes(fs, src, dst) :
          LET f == AfterCopy(fs, src, dst, how)
              e == Event("copy", "copy", "requirements", dst, how = "copied")
          IN IF how = "copied" THEN Goto(f, e, "verify", 0) ELSE Abort(f, e)

\* launch: subprocess.check_output([venv_python, "-V"]); CalledProcessError
\* only prints a warning
VerifyEnvironment ==
    /\ mode = "launch" /\ pc = "verify"
    /\ \E ok \in {TRUE, FALSE} :
          /\ log' = Append(log, Event("verify", "run", "python -V", <<>>, ok))
          /\ pc' = "launch"
          /\ Finish("complete", 0)
          /\ UNCHANGED <<fs, project_name, prompted, app_name, confirmation,
                         launched, destroys, prev, created>>

Launch ==
    \/ \E name \in LaunchNames, ask \in {TRUE, FALSE} : LaunchStart(name, ask)
    \/ WriteMission
    \/ CreateVirtualEnvironment
    \/ InstallDjango
    \/ InstallPackage
    \/ WriteRequirements
    \/ SetupRun
    \/ SetupMakedirs
    \/ SetupWrite
    \/ SetupTouch
    \/ CopyRequirements
    \/ VerifyEnvironment

----------------------------------------------------------------------------
(* DESTROY.py: destroy *)

\* a comparison that ignores case
ConfirmedAnyCase(answer) == answer \in {"DESTROY", "destroy"}

\* destroy: `confirmation != "DESTROY"` negated
Confirmed(answer) == answer = "DESTROY"

\* shutil.rmtree(path): the tree goes; when the path is the working directory
\* or a directory above it, everything below goes and the final rmdir raises
rmtree(f, p) ==
    IF IsPrefix(p, Cwd)
    THEN {[fs |-> PruneBelow(f, p), raised |-> TRUE, call |-> "rmtree"]}
    ELSE {[fs |-> Prune(f, p), raised |-> FALSE, call |-> "rmtree"],
          [fs |-> f, raised |-> TRUE, call |-> "rmtree"]}

\* a removal that does not test for existence first: an absent path raises
remove_unchecked(f, comps) ==
    IF isfile(f, comps)
    THEN {[fs |-> Prune(f, Resolve(comps)), raised |-> FALSE, call |-> "remove"],
          [fs |-> f, raised |-> TRUE, call |-> "remove"]}
    ELSE IF isdir(f, comps)
         THEN rmtree(f, Resolve(comps))
         ELSE {[fs |-> f, raised |-> TRUE, call |-> "remove"]}

\* remove_if_exists(path): the possible results; a removal can raise
\* (permission, file in use) and then leaves the path in place
remove_if_exists(f, comps) ==
    IF isfile(f, comps)
    THEN {[fs |-> Prune(f, Resolve(comps)), raised |-> FALSE, call |-> "remove"],
          [fs |-> f, raised |-> TRUE, call |-> "remove"]}
    ELSE IF isdir(f, comps)
         THEN rmtree(f, Resolve(comps))
         ELSE {[fs |-> f, raised |-> FALSE, call |-> "skip"]}

\* the cancellation raising typer.Exit(1)
PromptedExitOne(name, answer) ==
    /\ destroys' = destroys + 1
    /\ app_name' = name
    /\ confirmation' = answer
    /\ log' = <<>>
    /\ prev' = LastRun
    /\ IF Confirmed(answer)
       THEN /\ mode' = "destroy"
            /\ pc' = "remove"
            /\ idx' = 1
            /\ outcome' = "running"
            /\ exit_code' = -1
            /\ pending' = FALSE
       ELSE /\ pc' = "destroy"
            /\ Finish("cancelled", 1)
    /\ UNCHANGED <<fs, project_name, prompted, launched, created>>

\* destroy with the answers (name, answer) to its two prompts: the
\* confirmation check; a mismatch prints "Destruction cancelled" and raises
\* typer.Exit()
Prompted(name, answer) ==
    /\ destroys' = destroys + 1
    /\ app_name' = name
    /\ confirmation' = answer
    /\ log' = <<>>
    /\ prev' = LastRun
    /\ IF Confirmed(answer)
       THEN /\ mode' = "destroy"
            /\ pc' = "remove"
            /\ idx' = 1
            /\ outcome' = "running"
            /\ exit_code' = -1
            /\ pending' = FALSE
       ELSE /\ pc' = "destroy"
            /\ Finish("cancelled", 0)
    /\ UNCHANGED <<fs, project_name, prompted, launched, created>>

\* the first destroy of the session, in the directory launch ran in
DestroyStart(name, answer) ==
    /\ AtPrompt
    /\ launched
    /\ destroys = 0
    /\ Prompted(name, answer)

\* the user runs destroy again and gives the same answers
DestroyAgain ==
    /\ AtPrompt
    /\ destroys \in 1..MaxRepeats
    /\ Prompted(app_name, confirmation)

\* destroy: one iteration of `for file in files_to_remove` / `for directory in
\* dirs_to_remove`; an exception of remove_if_exists leaves the command, the
\* last iteration is followed by "Destruction complete!"
RemoveStep ==
    /\ mode = "destroy" /\ pc = "remove"
    /\ idx \in DOMAIN Candidates(app_name)
    /\ LET c == Candidates(app_name)[idx] IN
       \E r \in remove_if_exists(fs, c) :
          /\ fs' = r.fs
          /\ log' = Append(log, Event("teardown", r.call, "", c, ~r.raised))
          /\ IF r.raised
             THEN pc' = "destroy" /\ Finish("error", 1)
             ELSE IF idx < Len(Candidates(app_name))
                  THEN /\ idx' = idx + 1
                       /\ UNCHANGED <<mode, pc, outcome, exit_code, pending>>
                  ELSE pc' = "destroy" /\ Finish("complete", 0)
          /\ UNCHANGED <<project_name, prompted, app_name, confirmation, launched,
                         destroys, prev, created>>

Destroy ==
    \/ \E name \in DestroyNames, answer \in Confirmations :
          DestroyStart(name, answer)
    \/ DestroyAgain
    \/ RemoveStep

----------------------------------------------------------------------------
(* The session: one launch, then destroy, then destroy re-run with the same
   answers up to MaxRepeats times; one invocation at a time *)

Next == Launch \/ Destroy

Spec == Init /\ [][Next]_vars

----------------------------------------------------------------------------
(* Vocabulary of the properties *)

\* an invocation of the named command has finished
Finished(cmd) == mode = "idle" /\ pc = cmd

\* the candidate path exists for remove_if_exists' own tests
CandidateExists(f, comps) == isfile(f, comps) \/ isdir(f, comps)

NoCandidateLeft(f, name) ==
    \A i \in DOMAIN Candidates(name) : ~CandidateExists(f, Candidates(name)[i])

\* a step of the destroy command, from its prompts to its exit
DestroyStep == destroys' = destroys + 1 \/ mode = "destroy"

----------------------------------------------------------------------------
(* C1: confirmation gating.  Whatever identifier is typed, an answer to the
   confirmation prompt other than exactly "DESTROY" ("destroy" and the empty
   default included) ends destroy at once: the filesystem after the call is
   the filesystem before it, nothing has been attempted, and cancellation is
   reported. *)
C1_ConfirmationGating ==
    [][(destroys' = destroys + 1 /\ confirmation' # "DESTROY")
        => /\ fs' = fs
           /\ mode' = "idle"
           /\ outcome' = "cancelled"
           /\ log' = <<>>]_vars

\* a lower-case answer was given in a scaffolded directory and destroy was
\* cancelled with the scaffold in place
C1_Witness ==
    /\ Finished("destroy")
    /\ outcome = "cancelled"
    /\ confirmation = "destroy"
    /\ app_name = "blog"
    /\ isfile(fs, <<"manage.py">>)
    /\ isdir(fs, <<"blog">>)

----------------------------------------------------------------------------
(* C2: round trip.  After a launch in which every stage succeeded, destroy
   with the same identifier and the correct confirmation removes every path
   that launch created. *)
C2_RoundTrip ==
    (/\ Finished("destroy")
     /\ outcome = "complete"
     /\ prev.cmd = "launch"
     /\ prev.outcome = "complete"
     /\ prev.name = app_name)
    => \A p \in created : ~Exists(fs, p)

----------------------------------------------------------------------------
(* C3: teardown idempotence.  As claimed: from any filesystem state, a second
   destroy with the same identifier and the correct confirmation changes
   nothing, ends with no candidate path existing, and raises no error. *)
C3_IdempotentAlways ==
    [][(mode = "destroy" /\ destroys >= 2)
        => /\ fs' = fs
           /\ outcome' # "error"
           /\ (outcome' = "complete" => NoCandidateLeft(fs', app_name))]_vars

(* C3 as amended: when the first destroy ran to completion without a removal
   error, the second destroy with the same identifier and the correct
   confirmation changes nothing, raises no error, and ends with no candidate
   path existing as a file or directory. *)
C3_IdempotentAfterCompletion ==
    [][(mode = "destroy" /\ destroys >= 2 /\ prev.outcome = "complete")
        => /\ fs' = fs
           /\ outcome' # "error"
           /\ (outcome' = "complete" => NoCandidateLeft(fs', app_name))]_vars

\* the second destroy has completed after a first one that removed a
\* scaffold and completed
C3_Witness ==
    /\ Finished("destroy")
    /\ destroys = 2
    /\ outcome = "complete"
    /\ prev.cmd = "destroy" /\ prev.outcome = "complete"
    /\ app_name = "blog"
    /\ Resolve(<<"manage.py">>) \in created
    /\ Resolve(<<"blog", "urls.py">>) \in created
    /\ Len(log) = Len(Candidates(app_name))

----------------------------------------------------------------------------
(* Vocabulary of the launch properties *)

\* the log is that of the launch command
InLaunch == mode = "launch" \/ Finished("launch")

Last == log[Len(log)]

PipEvent(k, ok) ==
    Event("dependencies", "run", "pip install", <<Requirements[k]>>, ok)

\* the paths structure generation can bring into existence: the project and
\* app trees of the two django commands and every makedirs / write / touch of
\* setup_django_project
StructurePaths(name) ==
    LET setup == SetupOps(name)
        own == {Resolve(setup[i].path) :
                   i \in {j \in DOMAIN setup : setup[j].kind # "run"}}
        made == {Resolve(o.path) : o \in Range(CommandEffect("startproject", name))
                                          \cup Range(CommandEffect("startapp", name))}
        leaves == own \cup made
    IN  leaves \cup {q \in UNION {Ancestors(p) : p \in leaves} : ~IsPrefix(q, Cwd)}

NoStructureArtifact(f, name) == \A p \in StructurePaths(name) : ~Exists(f, p)

----------------------------------------------------------------------------
(* C4: when the installation of the first package (Django) fails, launch
   aborts before any structure artifact is written, and requirements.txt is
   still written and holds the package list. *)
C4_RequirementsOnPrerequisiteFailure ==
    (Finished("launch") /\ log # <<>> /\ Last = PipEvent(1, FALSE))
    => /\ outcome = "aborted"
       /\ NoStructureArtifact(fs, project_name)
       /\ NodeAt(fs, Resolve(<<"requirements.txt">>)) = Render("requirements", project_name)

----------------------------------------------------------------------------
(* C5: VCS init is non-fatal.  A failed `git init` is followed by the
   post-init tasks: the run goes on after it, so a failed git init is never
   the operation launch ended on. *)
C5_VcsInitNonFatal ==
    InLaunch =>
        \A i \in DOMAIN log :
            (log[i].what = "git init" /\ ~log[i].ok)
            => (mode = "launch" \/ i < Len(log))

----------------------------------------------------------------------------
(* C6: teardown removes nothing outside its candidate set.  Whatever
   identifier is typed with the correct confirmation, a path that is neither
   one of the fixed candidate names (or below one) nor inside the
   identifier's own top-level directory under the working directory still
   exists after destroy. *)
FixedCandidates ==
    Range([i \in DOMAIN files_to_remove |-> <<files_to_remove[i]>>])
    \cup {<<"venv">>, <<"tests">>, <<"features">>, <<"config">>}

Covered(name, p) ==
    \/ \E c \in FixedCandidates : IsPrefix(Cwd \o c, p)
    \/ /\ Components(name) # <<>>
       /\ Head(Components(name)) \notin {".", "..", "/"}
       /\ IsPrefix(Cwd \o <<Head(Components(name))>>, p)

C6_OnlyCandidatesRemoved ==
    destroys >= 1 =>
        \A p \in UserFiles \cup created : Covered(app_name, p) \/ Exists(fs, p)

----------------------------------------------------------------------------
(* C7: stage ordering.  A structure-generation operation is invoked only
   after every package install and the requirements record have succeeded;
   in a launch run in which a package install fails (the first or a later
   one) no structure-generation operation is invoked and no structure
   artifact exists. *)
C7_StageOrdering ==
    InLaunch =>
        /\ \A i \in DOMAIN log :
              log[i].stage = "structure" =>
                 /\ \A k \in DOMAIN Requirements :
                       \E j \in 1..(i - 1) : log[j] = PipEvent(k, TRUE)
                 /\ \E j \in 1..(i - 1) :
                       log[j].stage = "dependencies" /\ log[j].op = "write" /\ log[j].ok
        /\ (\E j \in DOMAIN log : log[j].stage = "dependencies" /\ ~log[j].ok)
           => /\ \A i \in DOMAIN log : log[i].stage \notin {"structure", "vcs", "postinit"}
              /\ NoStructureArtifact(fs, project_name)

\* launch was aborted by the failure of a package after the first, the
\* environment and the requirements record being in place
C7_Witness ==
    /\ Finished("launch")
    /\ outcome = "aborted"
    /\ \E j \in DOMAIN log : log[j] = PipEvent(5, FALSE)
    /\ isdir(fs, <<"venv">>)
    /\ isfile(fs, <<"requirements.txt">>)

----------------------------------------------------------------------------
(* C8: teardown continues past a failing removal.  When the removal of one
   candidate path fails, destroy still attempts every remaining candidate, so
   a finished confirmed destroy has gone through the whole removal list. *)
C8_ContinuesPastFailure ==
    (Finished("destroy") /\ outcome \in {"complete", "error"})
    => Len(log) = Len(Candidates(app_name))

----------------------------------------------------------------------------
(* C9: reserved-name rejection.  launch with an identifier equal to one of
   the fixed top-level names ("config", "venv", "tests", "features") is
   rejected before any pipeline stage runs: no operation is invoked and no
   file is written. *)
ReservedNames == {"config", "venv", "tests", "features"}

C9_ReservedNameRejected ==
    (InLaunch /\ project_name \in ReservedNames)
    => (log = <<>> /\ created = {})

----------------------------------------------------------------------------
(* C10: no duplicate resolved paths.  Within one launch no generated file is
   written a second time from a different template. *)
C10_NoDuplicatePaths ==
    InLaunch =>
        \A i, j \in DOMAIN log :
            (/\ i < j
             /\ log[i].op = "write" /\ log[i].ok
             /\ log[j].op = "write" /\ log[j].ok
             /\ log[i].arg = log[j].arg)
            => log[i].what = log[j].what

----------------------------------------------------------------------------
(* C11: strict stage sequence.  Within one launch every structure artifact
   is written before the version-control initialisation command runs, that
   command runs before the migration and account-creation commands, and no
   structure artifact is written after a post-initialisation task has run. *)
StageRank(stage) ==
    CASE stage = "structure" -> 1
      [] stage = "vcs" -> 2
      [] stage = "postinit" -> 3
      [] OTHER -> 0

Generation(i) == StageRank(log[i].stage) > 0

C11_StagesInSequence ==
    InLaunch =>
        \A i, j \in DOMAIN log :
            (i < j /\ Generation(i) /\ Generation(j))
            => StageRank(log[i].stage) <= StageRank(log[j].stage)

----------------------------------------------------------------------------
(* C12: launch exit code.  A finished launch has exit code 0 when every
   stage succeeded, and a non-zero exit code whenever an operation of
   environment setup, dependency installation, structure generation,
   migration or account creation failed. *)
FatalStages == {"environment", "dependencies", "structure", "postinit"}

PipelineStages == FatalStages \cup {"mission", "vcs", "copy"}

FailedIn(stages) == \E i \in DOMAIN log : log[i].stage \in stages /\ ~log[i].ok

C12_LaunchExitCode ==
    Finished("launch") =>
        /\ ~FailedIn(PipelineStages) => (exit_code = 0 /\ outcome = "complete")
        /\ FailedIn(FatalStages) => exit_code # 0

\* account creation failed after every earlier stage had succeeded, and the
\* launch ended with exit code 1
C12_Witness ==
    /\ Finished("launch")
    /\ exit_code = 1
    /\ Len(log) > 1
    /\ Last = Event("postinit", "run", "createsuperuser", <<>>, FALSE)
    /\ \A i \in 1..(Len(log) - 1) : log[i].ok

----------------------------------------------------------------------------
(* C13: destroy exit code.  A finished destroy has exit code 0 both when the
   confirmation did not match and when every removal succeeded; its exit
   code is non-zero only when a removal raised. *)
C13_DestroyExitCode ==
    Finished("destroy") =>
        /\ outcome = "cancelled" => exit_code = 0
        /\ (outcome # "cancelled" /\ \A i \in DOMAIN log : log[i].ok)
               => (outcome = "complete" /\ exit_code = 0)
        /\ exit_code # 0 => (\E i \in DOMAIN log : ~log[i].ok)

\* a confirmed destroy ended with a non-zero exit code at a removal that
\* raised, after earlier candidates had been removed
C13_Witness ==
    /\ Finished("destroy")
    /\ Confirmed(confirmation)
    /\ exit_code = 1
    /\ Len(log) > 1
    /\ ~Last.ok
    /\ log[1].ok /\ log[1].op = "remove"

----------------------------------------------------------------------------
(* C14: post-initialisation ordering.  Account creation is attempted only
   after the migration command has succeeded; a failed migration aborts the
   launch with no account-creation attempt; a failed account creation after
   a successful migration aborts the launch. *)
RunEvent(i, what) == log[i].op = "run" /\ log[i].what = what

AbortedAt(i) ==
    /\ i = Len(log)
    /\ Finished("launch")
    /\ outcome = "aborted"
    /\ exit_code # 0

C14_PostInitOrdering ==
    InLaunch =>
        \A i \in DOMAIN log :
            /\ RunEvent(i, "createsuperuser")
                  => \E j \in 1..(i - 1) : RunEvent(j, "migrate") /\ log[j].ok
            /\ (RunEvent(i, "migrate") /\ ~log[i].ok)
                  => /\ AbortedAt(i)
                     /\ \A j \in DOMAIN log : ~RunEvent(j, "createsuperuser")
            /\ (RunEvent(i, "createsuperuser") /\ ~log[i].ok) => AbortedAt(i)

\* migration failed after the version-control command had succeeded; the
\* launch is aborted and the database file was never created
C14_Witness ==
    /\ Finished("launch")
    /\ outcome = "aborted"
    /\ Len(log) > 1
    /\ Last = Event("postinit", "run", "migrate", <<>>, FALSE)
    /\ log[Len(log) - 1] = Event("vcs", "run", "git init", <<>>, TRUE)
    /\ ~Exists(fs, Resolve(<<"db.sqlite3">>))

----------------------------------------------------------------------------
(* C15: successful-run layout.  After every launch in which all stages
   succeeded, whether the name was passed as an argument or prompted, the
   working directory holds the full fixed layout: environment directory,
   requirements record, configuration directory with settings and urls, the
   named directory with services, templates, static and urls, the tests
   directory with its fixture file, the runner-configuration files at the
   root, the behaviour-test directory, the version-control metadata
   directory, the database file, the ignore file and the mission document. *)
LayoutDirs(name) ==
    LET app == Components(name) IN
    { <<"venv">>, <<"config">>, app, app \o <<"services">>,
      app \o <<"templates">>, app \o <<"static">>, <<"tests">>,
      <<"features">>, <<"features", "steps">>, <<".git">> }

LayoutFiles(name) ==
    LET app == Components(name) IN
    { <<"requirements.txt">>, <<"config", "settings.py">>,
      <<"config", "urls.py">>, app \o <<"urls.py">>,
      <<"tests", "conftest.py">>, <<"pytest.ini">>, <<"behave.ini">>,
      <<"features", "homepage.feature">>,
      <<"features", "steps", "homepage_steps.py">>,
      <<"db.sqlite3">>, <<".gitignore">> }

MissionDocument == <<"MISSION.md">>

C15_SuccessfulRunLayout ==
    (Finished("launch") /\ outcome = "complete")
    => /\ \A d \in LayoutDirs(project_name) : isdir(fs, d)
       /\ \A p \in LayoutFiles(project_name) \cup {MissionDocument} : isfile(fs, p)

----------------------------------------------------------------------------
(* C16: for a valid identifier I, a launch of I in which every operation
   succeeded ends with exit code 0 and leaves a directory I that holds a
   services subdirectory and a urls.py whose final content is rendered with
   I as its namespace. *)
AllSucceeded == \A i \in DOMAIN log : log[i].ok

UrlsTemplates == {"app_urls", "project_urls"}

C16_ScenarioA ==
    (Finished("launch") /\ AllSucceeded /\ project_name \notin ReservedNames)
    => LET app == Components(project_name)
           urls == NodeAt(fs, Resolve(app \o <<"urls.py">>))
       IN  /\ outcome = "complete"
           /\ exit_code = 0
           /\ isdir(fs, app)
           /\ isdir(fs, app \o <<"services">>)
           /\ urls.kind = "file"
           /\ urls.tmpl \in UrlsTemplates
           /\ urls.arg = project_name

\* launch blog, name passed as argument, has ended with every operation
\* succeeded, the second write to blog/urls.py included
C16_Witness ==
    /\ Finished("launch")
    /\ AllSucceeded
    /\ project_name = "blog"
    /\ ~prompted
    /\ exit_code = 0
    /\ \E i \in DOMAIN log :
          /\ log[i].what = "project_urls"
          /\ log[i].arg = Resolve(<<"blog", "urls.py">>)
    /\ fs[Resolve(<<"blog", "urls.py">>)] = File("project_urls", "blog")

----------------------------------------------------------------------------
(* C17: failure of a package after the first.  The install commands run in
   list order, each after the success of the one before; at the first
   failing package after the first no later install is attempted, no
   structure-generation operation runs, the write of requirements.txt is the
   next and last operation of the launch, which then ends aborted with a
   non-zero exit code; requirements.txt holds the package list once that
   write has gone through. *)
IsInstall(e) == e.stage = "dependencies" /\ e.op = "run"

Installs == SelectSeq(log, IsInstall)

RequirementsRecord == Resolve(<<"requirements.txt">>)

C17_LaterPackageFailure ==
    InLaunch =>
        /\ \A m \in DOMAIN Installs :
              /\ m <= Len(Requirements)
              /\ Installs[m].arg = <<Requirements[m]>>
              /\ m < Len(Installs) => Installs[m].ok
        /\ \A i \in DOMAIN log, k \in 2..Len(Requirements) :
              log[i] = PipEvent(k, FALSE) =>
                 /\ \A j \in (i + 1)..Len(log) : ~IsInstall(log[j])
                 /\ \A j \in DOMAIN log :
                       log[j].stage \notin {"structure", "vcs", "postinit", "copy"}
                 /\ NoStructureArtifact(fs, project_name)
                 /\ Len(log) <= i + 1
                 /\ Len(log) = i + 1 =>
                       /\ log[i + 1].stage = "dependencies"
                       /\ log[i + 1].op = "write"
                       /\ log[i + 1].arg = RequirementsRecord
                       /\ log[i + 1].ok =>
                             fs[RequirementsRecord] = Render("requirements", project_name)
                       /\ AbortedAt(i + 1)
                 /\ Finished("launch") => Len(log) = i + 1

\* the last package of the list failed after the thirteen before it had
\* been installed; requirements.txt was then written and the launch aborted
C17_Witness ==
    /\ Finished("launch")
    /\ outcome = "aborted"
    /\ exit_code = 1
    /\ Len(Installs) = Len(Requirements)
    /\ log[Len(log) - 1] = PipEvent(Len(Requirements), FALSE)
    /\ Last.op = "write" /\ Last.ok
    /\ fs[RequirementsRecord] = Render("requirements", project_name)
    /\ ~Exists(fs, Resolve(<<"manage.py">>))

----------------------------------------------------------------------------
(* C18: failure of the environment setup.  When the creation of the virtual
   environment fails, the launch ends aborted at that operation: no package
   install, no structure-generation operation, no version-control
   initialisation, no migration and no account creation is performed. *)
VenvFailed == Event("environment", "run", "venv", <<>>, FALSE)

C18_EnvironmentFailureAborts ==
    InLaunch =>
        \A i \in DOMAIN log :
            log[i] = VenvFailed =>
               /\ AbortedAt(i)
               /\ \A j \in DOMAIN log : log[j].stage \in {"mission", "environment"}
               /\ NoStructureArtifact(fs, project_name)
               /\ ~Exists(fs, RequirementsRecord)

\* a prompted launch wrote the mission document and was aborted by the
\* failing environment command
C18_Witness ==
    /\ Finished("launch")
    /\ outcome = "aborted"
    /\ prompted
    /\ Len(log) = 2
    /\ log[1].stage = "mission" /\ log[1].ok
    /\ Last = VenvFailed
    /\ ~isdir(fs, <<"venv">>)

----------------------------------------------------------------------------
(* C19: no rollback.  When an operation of structure generation fails, the
   launch is aborted at that operation, which is the last one of the run, and
   every path the run has created (environment directory, requirements.txt,
   the files and directories written before the failure) still exists. *)
C19_NoRollback ==
    InLaunch =>
        /\ \A i \in DOMAIN log :
              (log[i].stage = "structure" /\ ~log[i].ok) => AbortedAt(i)
        /\ \A p \in created : Exists(fs, p)

\* the write of config/settings.py failed; the environment, the requirements
\* record and the files written before it are in place
C19_Witness ==
    /\ Finished("launch")
    /\ outcome = "aborted"
    /\ project_name = "blog"
    /\ Last.stage = "structure" /\ Last.what = "project_settings" /\ ~Last.ok
    /\ {Resolve(<<"venv">>), RequirementsRecord, Resolve(<<"tests", "conftest.py">>),
        Resolve(<<"blog", "services", "base.py">>), Resolve(<<"blog", "urls.py">>)}
          \subseteq created
    /\ isdir(fs, <<"venv">>)
    /\ isfile(fs, <<"requirements.txt">>)
    /\ isfile(fs, <<"blog", "urls.py">>)

----------------------------------------------------------------------------
(* C20: no automatic retry.  Within one launch each external command
   (environment creation, each package install, project creation, app
   creation, version-control initialisation, migration, account creation) is
   invoked at most once, also after it has failed. *)
C20_NoRetry ==
    InLaunch =>
        \A i, j \in DOMAIN log :
            (i < j /\ log[i].op = "run" /\ log[j].op = "run")
            => <<log[i].what, log[i].arg>> # <<log[j].what, log[j].arg>>

\* the app-creation command failed and the launch ended with that single
\* invocation of it in the log
C20_Witness ==
    /\ Finished("launch")
    /\ outcome = "aborted"
    /\ Last = Event("structure", "run", "startapp", <<>>, FALSE)
    /\ Cardinality({i \in DOMAIN log : RunEvent(i, "startapp")}) = 1
    /\ Cardinality({i \in DOMAIN log : log[i].op = "run"}) = Len(Requirements) + 3

----------------------------------------------------------------------------
(* C21: inventory agreement.  For the identifier of a launch, every path on
   destroy's removal list (manage.py, requirements.txt, setup.py, behave.ini,
   db.sqlite3, pytest.ini, .gitignore, venv, tests, features, config and the
   identifier's directory) is a path the launch with that identifier
   creates: after a launch that completed, each of them is among the paths
   the run created. *)
CandidatePaths(name) == {Resolve(c) : c \in Range(Candidates(name))}

\* the launch of this session ran to completion
LaunchCompleted ==
    \/ Finished("launch") /\ outcome = "complete"
    \/ destroys = 1 /\ prev.cmd = "launch" /\ prev.outcome = "complete"

C21_InventoryAgreement ==
    LaunchCompleted => CandidatePaths(project_name) \subseteq created

\* destroy, run with the identifier of the completed launch before it, went
\* through its whole list: every candidate had been created by the launch and
\* is gone
C21_Witness ==
    /\ Finished("destroy")
    /\ destroys = 1
    /\ outcome = "complete"
    /\ app_name = project_name
    /\ prev.cmd = "launch" /\ prev.outcome = "complete"
    /\ CandidatePaths(app_name) \subseteq created
    /\ \A p \in CandidatePaths(app_name) : ~Exists(fs, p)

----------------------------------------------------------------------------
(* C22: directories before files.  In structure generation, whenever the
   next statement writes or touches a file, the file's parent directory
   already exists and, unless it is the working directory itself, was
   created earlier in the same run (by a makedirs step or by the project /
   app creation command). *)
AtFileStep ==
    /\ mode = "launch" /\ pc = "setup"
    /\ SetupOp.kind \in {"write", "touch"}

C22_DirectoriesBeforeFiles ==
    AtFileStep =>
        LET d == Parent(Resolve(SetupOp.path)) IN
        /\ NodeAt(fs, d).kind = "dir"
        /\ d # Cwd => d \in created

\* the step definitions have been written into features/steps, which an
\* earlier makedirs step of the run had created
C22_Witness ==
    /\ mode = "launch"
    /\ Len(log) > 0
    /\ Last.op = "write" /\ Last.what = "homepage_steps" /\ Last.ok
    /\ Parent(Last.arg) = Resolve(<<"features", "steps">>)
    /\ \E i \in DOMAIN log :
          log[i].op = "makedirs" /\ log[i].ok /\ log[i].arg = Parent(Last.arg)
    /\ Parent(Last.arg) \in created

----------------------------------------------------------------------------
(* C23: file writes are all-or-nothing.  A write of a generated file that
   fails leaves the file with its fully rendered content, absent, or as it
   was before the write: every step of launch leaves each path either
   unchanged or holding a fully rendered file or a directory, and no file
   ever holds partial content. *)
C23_WritesAllOrNothing ==
    [][mode = "launch" =>
          \A p \in DOMAIN fs' :
              \/ p \in DOMAIN fs /\ fs'[p] = fs[p]
              \/ fs'[p] # Truncated]_vars

----------------------------------------------------------------------------
(* One launch run on its own.  The command is a sequential program whose
   external operations all return, so a launch that can take a step takes
   one. *)
LaunchRun == Init /\ [][Launch]_vars /\ WF_vars(Launch)

(* C24: launch terminates.  Every external operation returning, a launch
   that has started reaches a terminal state, complete or aborted; that
   state is final (nothing changes after it), and after a pipeline operation
   has failed no operation of a later stage runs (the requirements record
   written in the finally clause belongs to the failed stage). *)
Terminal == Finished("launch") /\ outcome \in {"complete", "aborted"}

C24_LaunchTerminates ==
    /\ (mode = "launch") ~> Terminal
    /\ [][Finished("launch") => UNCHANGED vars]_vars
    /\ [][\A i \in DOMAIN log :
             (log[i].stage \in PipelineStages /\ ~log[i].ok)
             => \/ log' = log
                \/ /\ mode = "launch"
                   /\ log' = Append(log, log'[Len(log')])
                   /\ log'[Len(log')].stage = log[i].stage]_vars

\* a launch has reached its terminal state "complete" through all its
\* operations, the failed interpreter-version query at the end included
C24_Witness ==
    /\ Terminal
    /\ outcome = "complete"
    /\ Len(log) > Len(Requirements) + Len(SetupOps(project_name))
    /\ Last = Event("verify", "run", "python -V", <<>>, FALSE)

----------------------------------------------------------------------------
(* What the generated files name *)

\* the Python modules a generated file names, as dotted paths: pytest.ini
\* (DJANGO_SETTINGS_MODULE and --ds, both `{}.settings`), config/settings.py
\* (the local app in INSTALLED_APPS, ROOT_URLCONF, WSGI_APPLICATION) and the
\* urls content with include('{project_name}.urls')
ModuleRefs(node) ==
    CASE node.tmpl = "pytest_ini" -> { Components(node.arg) \o <<"settings">> }
      [] node.tmpl = "project_settings" ->
            { Components(node.arg), <<"config", "urls">>, <<"config", "wsgi">> }
      [] node.tmpl = "project_urls" -> { Components(node.arg) \o <<"urls">> }
      [] OTHER -> {}

\* the static files base.html asks for with {% static '...' %}
StaticRefs(node) ==
    IF node.tmpl = "base_html"
    THEN { <<"main_app", "css", "style.css">>, <<"main_app", "js", "main.js">> }
    ELSE {}

\* the source file of a module's last component
PyFile(stem) ==
    CASE stem = "settings" -> "settings.py"
      [] stem = "urls" -> "urls.py"
      [] stem = "wsgi" -> "wsgi.py"
      [] OTHER -> "__init__.py"

\* Python's import of a dotted path from the working directory: a module
\* file, or a package directory
ModuleResolves(f, m) ==
    \/ isfile(f, SubSeq(m, 1, Len(m) - 1) \o <<PyFile(m[Len(m)])>>)
    \/ isdir(f, m) /\ isfile(f, m \o <<"__init__.py">>)

\* Django's app-directories finder: <app>/static/<path> of the local app
StaticResolves(f, app, ref) == isfile(f, Components(app) \o <<"static">> \o ref)

----------------------------------------------------------------------------
(* C25: naming consistency.  After a launch that completed, with any
   identifier, every module a generated file names resolves to a generated
   artifact (the settings module of pytest.ini among them) and every static
   path base.html references is a generated static file. *)
C25_NamingConsistency ==
    (Finished("launch") /\ outcome = "complete")
    => \A p \in DOMAIN fs :
          /\ \A m \in ModuleRefs(fs[p]) : ModuleResolves(fs, m)
          /\ \A r \in StaticRefs(fs[p]) : StaticResolves(fs, project_name, r)

----------------------------------------------------------------------------
(* C26: mission document timing.  MISSION.md is written only in a launch
   whose name was prompted, and then as the first operation, before the
   environment setup; once written it exists in every later state of the
   run, aborted terminal states included; and destroy never removes it. *)
MissionPath == Resolve(MissionDocument)

MissionOnlyWhenPrompted ==
    InLaunch =>
        /\ \A i \in DOMAIN log : log[i].stage = "mission" => (prompted /\ i = 1)
        /\ (prompted /\ log # <<>>) => log[1].stage = "mission"
        /\ ~prompted => MissionPath \notin created

MissionStays ==
    (InLaunch /\ prompted /\ log # <<>> /\ log[1].ok) => isfile(fs, MissionDocument)

MissionSurvivesDestroy ==
    mode = "destroy" => (Exists(fs, MissionPath) => Exists(fs', MissionPath))

C26_MissionDocumentTiming ==
    /\ [](MissionOnlyWhenPrompted /\ MissionStays)
    /\ [][MissionSurvivesDestroy]_vars

----------------------------------------------------------------------------
(* C27: requirements copy.  The copy of requirements.txt into the
   identifier's directory is attempted only after every statement of
   setup_django_project has succeeded; in every aborted run the identifier's
   directory holds no requirements.txt; in every complete run the copy has
   the content of the root requirements.txt. *)
CopiedRecord == Resolve(Components(project_name) \o <<"requirements.txt">>)

SetupStages == {"structure", "vcs", "postinit"}

CopyAfterSetup ==
    InLaunch =>
        \A i \in DOMAIN log :
            log[i].op = "copy" =>
               Cardinality({j \in 1..(i - 1) : log[j].stage \in SetupStages /\ log[j].ok})
                  = Len(SetupOps(project_name))

CopyEqualsRecord ==
    (Finished("launch") /\ outcome = "complete")
    => /\ isfile(fs, <<"requirements.txt">>)
       /\ Exists(fs, CopiedRecord)
       /\ fs[CopiedRecord] = fs[RequirementsRecord]

C27_RequirementsCopy ==
    /\ CopyAfterSetup
    /\ CopyEqualsRecord
    /\ (Finished("launch") /\ outcome = "aborted") => ~Exists(fs, CopiedRecord)

====
